---------------------------- MODULE Spec2Model ----------------------------
(***************************************************************************)
(* Frame lowering of the AVR backend (lib/Target/AVR/AVRFrameLowering.cpp) *)
(* as a state machine over one machine function: the frame analyzer, the   *)
(* dynalloca SP save/restore pass, callee-saved spill/restore, prologue    *)
(* and epilogue emission and call frame pseudo elimination.                *)
(***************************************************************************)
EXTENDS Integers, Sequences, FiniteSets, TLC

VARIABLES
  StackAlignment, \* TargetFrameLowering::getStackAlignment()
  CallConv,   \* MF.getFunction()->getCallingConv()
  MFI,        \* MachineFrameInfo: NumFixedObjects, Objects, StackSize, MaxCallFrameSize
  FuncInfo,   \* AVRMachineFunctionInfo: HasSpills, HasAllocas, HasStackArgs, CalleeSavedFrameSize
  CSI,        \* callee-saved register list handed to spill/restore
  MF,         \* the basic blocks: sequence of [insts, liveIns]
  MF0,        \* history: the function as it was before any pass ran
  pc,         \* which pass of the pipeline runs next
  cur,        \* the returning block the restore/epilogue loop is at (0: none)
  ret         \* history: what each pass returned, and the block before the last edit

vars == <<StackAlignment, CallConv, MFI, FuncInfo, CSI, MF, MF0, pc, cur, ret>>

-----------------------------------------------------------------------------
(* Bounds of the model *)

\* longest callee-saved register list
MaxCSI == 2
\* how far above the 6-bit limit frame and call frame sizes are explored
MaxOver == 1

(* Program constants *)

\* isUInt<6>(x): x fits in 6 unsigned bits
UInt6Limit == 64
\* width of a pointer register pair and of SP
PtrBits == 16
\* I/O address of SREG
SREG == 63
\* bit of SREG set by BSETs in interrupt handlers
IFlag == 7
\* TargetFrameLowering(StackGrowsDown, 1, -2): the stack alignment
AVRStackAlignment == 1

\* Sizes and immediates are 32-bit values kept in two's complement: a negative
\* number n stands for the unsigned value 2^32 + n, a wrapped unsigned result.
\* isUInt<6>(x): the unsigned value is below 64.
isUInt6(x) == x >= 0 /\ x < UInt6Limit

-----------------------------------------------------------------------------
(* Machine instructions *)

NoReg == "noreg"

\* an instruction: opcode, defined/base register, source register, immediate,
\* kill state of the source, FrameSetup flag, frame index operand (at most one)
Inst(op, dst, src, imm, kill, fs, fi) ==
  [op |-> op, dst |-> dst, src |-> src, imm |-> imm, kill |-> kill,
   fs |-> fs, fi |-> fi]

Plain(op) == Inst(op, NoReg, NoReg, 0, FALSE, FALSE, {})

PushOps == {"PUSHRr", "PUSHWRr"}
PopOps == {"POPRd", "POPWRd"}
ReturnOps == {"RET", "RETI"}
TerminatorOps == ReturnOps \cup {"RJMP", "BRNE"}
CallOps == {"CALL"}
SPStoreOps == {"STDSPQRr", "STDWSPQRr"}
FrameSetupOp == "ADJCALLSTACKDOWN"
FrameDestroyOp == "ADJCALLSTACKUP"
FrameSDOps == {FrameSetupOp, FrameDestroyOp}
IndexedOps == {"LDDRdPtrQ", "LDDWRdPtrQ", "STDPtrQRr", "STDWPtrQRr"}

isReturn(i) == i.op \in ReturnOps
isTerminator(i) == i.op \in TerminatorOps
isCall(i) == i.op \in CallOps

\* TRI->getSubReg(SrcReg, AVR::sub_hi / AVR::sub_lo) of the argument pair
SubReg(reg, idx) ==
  IF reg = "R25R24" THEN (IF idx = "sub_hi" THEN "R25" ELSE "R24") ELSE NoReg

\* insert the sequence s into seq before position p (1..Len(seq)+1)
InsertBefore(seq, p, s) == SubSeq(seq, 1, p - 1) \o s \o SubSeq(seq, p, Len(seq))

RECURSIVE SumSeq(_)
SumSeq(s) == IF s = <<>> THEN 0 ELSE Head(s) + SumSeq(Tail(s))

RECURSIVE Reverse(_)
Reverse(s) == IF s = <<>> THEN <<>> ELSE Reverse(Tail(s)) \o <<Head(s)>>


-----------------------------------------------------------------------------
(* MachineFrameInfo queries *)

getNumObjects == Len(MFI.Objects)
getNumFixedObjects == MFI.NumFixedObjects
getObjectIndexEnd == Len(MFI.Objects) - MFI.NumFixedObjects
\* frame index i: -NumFixedObjects .. -1 are the fixed objects, 0 .. the others
getObjectSize(i) == MFI.Objects[i + MFI.NumFixedObjects + 1]
isFixedObjectIndex(i) == i < 0 /\ i >= 0 - MFI.NumFixedObjects
\* variable sized objects have size 0
hasVarSizedObjects ==
  \E i \in 0 .. (getObjectIndexEnd - 1) : getObjectSize(i) = 0

-----------------------------------------------------------------------------
(* Frame policy *)

isHandler == CallConv \in {"AVR_INTR", "AVR_SIGNAL"}

hasFP_NoStackArgs == FuncInfo.HasSpills \/ FuncInfo.HasAllocas

hasFP ==
  FuncInfo.HasSpills \/ FuncInfo.HasAllocas \/ FuncInfo.HasStackArgs

hasReservedCallFrame_IgnoresVarSized ==
  hasFP /\ isUInt6(MFI.MaxCallFrameSize)

hasReservedCallFrame ==
  hasFP /\ ~hasVarSizedObjects /\ isUInt6(MFI.MaxCallFrameSize)

\* unsigned FrameSize = MFI->getStackSize() - AFI->getCalleeSavedFrameSize()
FrameSize == MFI.StackSize - FuncInfo.CalleeSavedFrameSize

-----------------------------------------------------------------------------
(* The functions the passes are run on *)

FP == "R29R28"
CSRegs == <<"R4", "R5", "R6", "R7">>
CSILists == {SubSeq(CSRegs, 1, n) : n \in 0 .. MaxCSI}

\* sizes around the 6-bit limit, and the small ones
NearLimit == (UInt6Limit - 1) .. (UInt6Limit - 1 + MaxOver)
LocalSizes == {0, 1} \cup NearLimit
CallFrameSizes == {0} \cup NearLimit

\* byte sizes of the stack arguments of a call, in program order
BigArgs == [i \in 1 .. (UInt6Limit \div 2) |-> 2]
ArgShapes == {<<>>, <<1>>, <<2, 1>>, BigArgs}
CallSeqs == {<<>>} \cup {<<a>> : a \in ArgShapes}

\* the k-th stack store of a call: SP-relative offset above the later arguments
\* (size 0 stands for an instruction between the stores that is not a store)
ArgStore(shape, k) ==
  IF shape[k] = 0 THEN Plain("MOV")
  ELSE Inst(IF shape[k] = 2 THEN "STDWSPQRr" ELSE "STDSPQRr", "SP",
            IF shape[k] = 2 THEN "R25R24" ELSE "R24",
            1 + SumSeq(SubSeq(shape, k + 1, Len(shape))), k % 2 = 1, FALSE, {})

\* setup marker, the argument stores, the call, teardown marker
CallSite(shape) ==
  <<Inst(FrameSetupOp, NoReg, NoReg, SumSeq(shape), FALSE, FALSE, {})>>
  \o [k \in 1 .. Len(shape) |-> ArgStore(shape, k)]
  \o <<Plain("CALL")>>
  \o <<Inst(FrameDestroyOp, NoReg, NoReg, SumSeq(shape), FALSE, FALSE, {})>>

RECURSIVE CallSites(_)
CallSites(calls) ==
  IF calls = <<>> THEN <<>> ELSE CallSite(Head(calls)) \o CallSites(Tail(calls))

RECURSIVE MaxAmount(_)
MaxAmount(calls) ==
  IF calls = <<>> THEN 0
  ELSE LET m == MaxAmount(Tail(calls)) a == SumSeq(Head(calls))
       IN IF a > m THEN a ELSE m

\* block tails of the control flow shapes; "ret" stands for the return
Layouts ==
  { << <<"ret">> >>,
    << <<"BRNE">>, <<"MOV", "ret">>, <<"MOV", "RJMP">>, <<"ret">> >>,
    << <<"RJMP">>, <<>>, <<"MOV", "ret">> >> }

RetOp(conv) == IF conv = "AVR_NORMAL" THEN "RET" ELSE "RETI"

Tail2Insts(conv, tail) ==
  [k \in 1 .. Len(tail) |->
     Plain(IF tail[k] = "ret" THEN RetOp(conv) ELSE tail[k])]

\* the blocks: the call sites open the entry block, the instruction with the
\* frame index operand (if any) sits in block fiBlock before the block's tail
BuildMF(conv, layout, calls, fiInsts, fiBlock) ==
  [b \in 1 .. Len(layout) |->
     [insts |-> (IF b = 1 THEN CallSites(calls) ELSE <<>>)
                \o (IF b = fiBlock THEN fiInsts ELSE <<>>)
                \o Tail2Insts(conv, layout[b]),
      liveIns |-> IF b = 1 THEN {CSRegs[1]} ELSE {}]]

FIInst(op, idx) == Inst(op, "R24", FP, 2, FALSE, FALSE, {idx})

\* object tables (sizes, fixed objects first) with the frame index user
ObjChoices ==
  { [nf |-> 0, objs |-> <<>>, fi |-> <<>>],
    [nf |-> 0, objs |-> <<2>>, fi |-> <<>>],
    [nf |-> 0, objs |-> <<0>>, fi |-> <<>>],
    [nf |-> 1, objs |-> <<1>>, fi |-> <<FIInst("LDDRdPtrQ", -1)>>],
    [nf |-> 1, objs |-> <<1, 0, 2>>, fi |-> <<FIInst("LDDWRdPtrQ", -1)>>] }

\* locals exist only with spill slots or sized non-fixed objects
LocalOK(spills, o, local) ==
  local # 0 =>
    (spills \/ \E i \in (o.nf + 1) .. Len(o.objs) : o.objs[i] # 0)

InitWith(convs, objs, fiBlocks, layouts, callSeqs, csis, locals, mcfs) ==
  \E conv \in convs, o \in objs, layout \in layouts, calls \in callSeqs,
     csi \in csis, local \in locals, spills \in BOOLEAN,
     mcf \in mcfs, fb \in fiBlocks :
    /\ mcf >= MaxAmount(calls)
    /\ fb <= Len(layout)
    /\ LocalOK(spills, o, local)
    /\ CallConv = conv
    /\ MFI = [NumFixedObjects |-> o.nf, Objects |-> o.objs,
              StackSize |-> Len(csi) + local, MaxCallFrameSize |-> mcf]
    /\ FuncInfo = [HasSpills |-> spills, HasAllocas |-> FALSE,
                   HasStackArgs |-> FALSE, CalleeSavedFrameSize |-> 0]
    /\ CSI = csi
    /\ MF = BuildMF(conv, layout, calls, o.fi, fb)
    /\ MF0 = MF
    /\ pc = "analyzer"
    /\ cur = 0
    /\ ret = [analyzer |-> "unset", dynalloca |-> "unset", spill |-> "unset",
              restore |-> "unset", SPCopy |-> NoReg]

CallConvs == {"AVR_NORMAL", "AVR_INTR", "AVR_SIGNAL"}

Init ==
  /\ StackAlignment = AVRStackAlignment
  /\ InitWith(CallConvs, ObjChoices, {1}, Layouts, CallSeqs, CSILists,
              LocalSizes, CallFrameSizes)

-----------------------------------------------------------------------------
(* AVRFrameAnalyzer::runOnMachineFunction *)

\* some non-fixed object has a size
FindsAllocas_AnyObject == getNumObjects # 0

FindsAllocas ==
  /\ getNumObjects - getNumFixedObjects # 0
  /\ \E i \in 0 .. (getObjectIndexEnd - 1) : getObjectSize(i) # 0

\* some indexed load/store has a frame index operand of a fixed object
FindsStackArgs ==
  /\ getNumFixedObjects # 0
  /\ \E b \in 1 .. Len(MF) : \E k \in 1 .. Len(MF[b].insts) :
       /\ MF[b].insts[k].op \in IndexedOps
       /\ \E i \in MF[b].insts[k].fi : isFixedObjectIndex(i)

RunFrameAnalyzer ==
  /\ pc = "analyzer"
  /\ FuncInfo' = [FuncInfo EXCEPT
                    !.HasAllocas = @ \/ FindsAllocas,
                    !.HasStackArgs = @ \/ FindsStackArgs]
  /\ ret' = [ret EXCEPT !.analyzer = "false"]
  /\ pc' = "dynalloca"
  /\ UNCHANGED <<StackAlignment, CallConv, MFI, CSI, MF, MF0, cur>>

-----------------------------------------------------------------------------
(* Block queries *)

\* MBB.getLastNonDebugInstr(): position of the last non-debug instruction
RECURSIVE LastNonDebugInstr(_)
LastNonDebugInstr(insts) ==
  IF insts = <<>> THEN 0
  ELSE IF insts[Len(insts)].op # "DBG_VALUE" THEN Len(insts)
  ELSE LastNonDebugInstr(SubSeq(insts, 1, Len(insts) - 1))

\* !MBB.empty() && MBB.back().isReturn()
EndsInReturn(insts) == insts # <<>> /\ isReturn(insts[Len(insts)])

\* the first returning block at or after b, 0 if there is none
RECURSIVE NextRet(_, _)
NextRet(mf, b) ==
  IF b > Len(mf) THEN 0
  ELSE IF EndsInReturn(mf[b].insts) THEN b
  ELSE NextRet(mf, b + 1)

\* where frame finalization inserts the restores: before the trailing terminators
RECURSIVE FirstTerminator(_, _)
FirstTerminator(insts, p) ==
  IF p > 1 /\ isTerminator(insts[p - 1]) THEN FirstTerminator(insts, p - 1)
  ELSE p

-----------------------------------------------------------------------------
(* AVRDynAllocaSR::runOnMachineFunction *)

\* MF.getRegInfo().createVirtualRegister(&AVR::DREGSRegClass)
SPCopy == "%vreg0"

SaveCopy == Inst("COPY", SPCopy, "SP", 0, FALSE, FALSE, {})
RestoreCopy == Inst("COPY", "SP", SPCopy, 0, TRUE, FALSE, {})

WithSave(b, insts) == IF b = 1 THEN <<SaveCopy>> \o insts ELSE insts

WithRestore_EveryBlock(insts) ==
  IF insts # <<>>
  THEN InsertBefore(insts, LastNonDebugInstr(insts), <<RestoreCopy>>)
  ELSE insts

WithRestore(insts) ==
  IF EndsInReturn(insts)
  THEN InsertBefore(insts, LastNonDebugInstr(insts), <<RestoreCopy>>)
  ELSE insts

RunDynAllocaSR ==
  /\ pc = "dynalloca"
  /\ IF ~hasVarSizedObjects
     THEN /\ MF' = MF
          /\ ret' = [ret EXCEPT !.dynalloca = "false"]
     ELSE /\ MF' = [b \in 1 .. Len(MF) |->
                      [MF[b] EXCEPT !.insts = WithRestore(WithSave(b, @))]]
          /\ ret' = [ret EXCEPT !.dynalloca = "true", !.SPCopy = SPCopy]
  /\ pc' = "spill"
  /\ UNCHANGED <<StackAlignment, CallConv, MFI, FuncInfo, CSI, MF0, cur>>

-----------------------------------------------------------------------------
(* AVRFrameLowering::spillCalleeSavedRegisters / restoreCalleeSavedRegisters *)

\* for (i = CSI.size(); i != 0; --i): the pushes in emission order, the
\* live-in set and the byte count
RECURSIVE SpillLoop(_, _, _, _, _)
SpillLoop(csi, i, liveIns, pushes, size) ==
  IF i = 0 THEN [pushes |-> pushes, liveIns |-> liveIns, size |-> size]
  ELSE LET Reg == csi[i]
           IsNotLiveIn == Reg \notin liveIns
       IN SpillLoop(csi, i - 1, liveIns \cup {Reg},
                    pushes \o <<Inst("PUSHRr", NoReg, Reg, 0, IsNotLiveIn,
                                     TRUE, {})>>,
                    size + 1)

SpillOf_Forward(csi, liveIns) ==
  SpillLoop(Reverse(csi), Len(csi), liveIns, <<>>, 0)

SpillOf(csi, liveIns) == SpillLoop(csi, Len(csi), liveIns, <<>>, 0)

\* for (i = 0; i != e; ++i): the pops in emission order
RestorePops(csi) ==
  [i \in 1 .. Len(csi) |-> Inst("POPRd", csi[i], NoReg, 0, FALSE, FALSE, {})]

\* called on the entry block with MI = MBB.begin()
SpillCalleeSavedRegisters ==
  /\ pc = "spill"
  /\ IF CSI = <<>>
     THEN /\ ret' = [ret EXCEPT !.spill = "false"]
          /\ UNCHANGED <<MF, FuncInfo>>
     ELSE LET r == SpillOf(CSI, MF[1].liveIns)
          IN /\ MF' = [MF EXCEPT ![1] =
                         [insts |-> InsertBefore(MF[1].insts, 1, r.pushes),
                          liveIns |-> r.liveIns]]
             /\ FuncInfo' = [FuncInfo EXCEPT !.CalleeSavedFrameSize = r.size]
             /\ ret' = [ret EXCEPT !.spill = "true"]
  /\ cur' = NextRet(MF, 1)
  /\ pc' = IF cur' = 0 THEN "prologue" ELSE "restore"
  /\ UNCHANGED <<StackAlignment, CallConv, MFI, CSI, MF0>>

\* called on each returning block with MI = the first trailing terminator
RestoreCalleeSavedRegisters ==
  /\ pc = "restore"
  /\ cur # 0
  /\ IF CSI = <<>>
     THEN /\ ret' = [ret EXCEPT !.restore = "false"]
          /\ MF' = MF
     ELSE /\ MF' = [MF EXCEPT ![cur].insts =
                      InsertBefore(@, FirstTerminator(@, Len(@) + 1),
                                   RestorePops(CSI))]
          /\ ret' = [ret EXCEPT !.restore = "true"]
  /\ cur' = NextRet(MF, cur + 1)
  /\ pc' = IF cur' = 0 THEN "prologue" ELSE "restore"
  /\ UNCHANGED <<StackAlignment, CallConv, MFI, FuncInfo, CSI, MF0>>

-----------------------------------------------------------------------------
(* AVRFrameLowering::emitPrologue *)

HandlerSave_StatusFirst(conv) ==
  (IF conv = "AVR_INTR"
   THEN <<Inst("BSETs", NoReg, NoReg, IFlag, FALSE, TRUE, {})>> ELSE <<>>)
  \o (IF conv \in {"AVR_INTR", "AVR_SIGNAL"}
      THEN <<Inst("INRdA", "R0", NoReg, SREG, FALSE, TRUE, {}),
             Inst("PUSHRr", NoReg, "R0", 0, TRUE, TRUE, {}),
             Inst("PUSHWRr", NoReg, "R1R0", 0, TRUE, TRUE, {})>>
      ELSE <<>>)

\* BSETs 7 in interrupt handlers; push R1R0, in R0 <- SREG, push R0 in handlers
HandlerSave(conv) ==
  (IF conv = "AVR_INTR"
   THEN <<Inst("BSETs", NoReg, NoReg, IFlag, FALSE, TRUE, {})>> ELSE <<>>)
  \o (IF conv \in {"AVR_INTR", "AVR_SIGNAL"}
      THEN <<Inst("PUSHWRr", NoReg, "R1R0", 0, TRUE, TRUE, {}),
             Inst("INRdA", "R0", NoReg, SREG, FALSE, TRUE, {}),
             Inst("PUSHRr", NoReg, "R0", 0, TRUE, TRUE, {})>>
      ELSE <<>>)

\* while (MBBI != MBB.end() && opcode is PUSHRr or PUSHWRr) ++MBBI
RECURSIVE SkipPushes(_, _)
SkipPushes(insts, p) ==
  IF p <= Len(insts) /\ insts[p].op \in PushOps
  THEN SkipPushes(insts, p + 1)
  ELSE p

PrologueSubOpcode_Inclusive(size) ==
  IF size >= 0 /\ size <= UInt6Limit THEN "SBIWRdK" ELSE "SUBIWRdK"

\* Opcode = isUInt<6>(FrameSize) ? SBIWRdK : SUBIWRdK
PrologueSubOpcode(size) == IF isUInt6(size) THEN "SBIWRdK" ELSE "SUBIWRdK"

\* SPREAD, then (FrameSize != 0) the subtract and SPWRITE
FrameSetupInsts(size) ==
  <<Inst("SPREAD", FP, "SP", 0, FALSE, TRUE, {})>>
  \o (IF size = 0 THEN <<>>
      ELSE <<Inst(PrologueSubOpcode(size), FP, FP, size, TRUE, TRUE, {}),
             Inst("SPWRITE", "SP", FP, 0, FALSE, TRUE, {})>>)

PrologueInsts(insts) ==
  LET pre == HandlerSave(CallConv)
      withPre == InsertBefore(insts, 1, pre)
  IN IF ~hasFP THEN withPre
     ELSE InsertBefore(withPre, SkipPushes(withPre, Len(pre) + 1),
                       FrameSetupInsts(FrameSize))

\* I->addLiveIn(R29R28) in every block except the entry
PrologueLiveIns(b, liveIns) ==
  IF hasFP /\ b # 1 THEN liveIns \cup {FP} ELSE liveIns

EmitPrologue ==
  /\ pc = "prologue"
  /\ MF' = [b \in 1 .. Len(MF) |->
              [insts |-> IF b = 1 THEN PrologueInsts(MF[b].insts)
                         ELSE MF[b].insts,
               liveIns |-> PrologueLiveIns(b, MF[b].liveIns)]]
  /\ cur' = NextRet(MF, 1)
  /\ pc' = IF cur' = 0 THEN "done" ELSE "epilogue"
  /\ UNCHANGED <<StackAlignment, CallConv, MFI, FuncInfo, CSI, MF0, ret>>

-----------------------------------------------------------------------------
(* AVRFrameLowering::emitEpilogue *)

\* pop R0, out SREG <- R0, pop R1R0
HandlerRestore ==
  <<Inst("POPRd", "R0", NoReg, 0, FALSE, FALSE, {}),
    Inst("OUTARr", NoReg, "R0", SREG, TRUE, FALSE, {}),
    Inst("POPWRd", "R1R0", NoReg, 0, FALSE, FALSE, {})>>

\* while (MBBI != MBB.begin()): stop at the first predecessor that is neither
\* a pop nor a terminator
RECURSIVE SkipPops(_, _)
SkipPops(insts, p) ==
  IF p > 1 /\ (insts[p - 1].op \in PopOps \/ isTerminator(insts[p - 1]))
  THEN SkipPops(insts, p - 1)
  ELSE p

\* isUInt<6>(FrameSize) ? ADIWRdK FrameSize : SUBIWRdK -FrameSize (unsigned)
FrameRestoreInsts(size) ==
  <<(IF isUInt6(size)
     THEN Inst("ADIWRdK", FP, FP, size, TRUE, FALSE, {})
     ELSE Inst("SUBIWRdK", FP, FP, 0 - size, TRUE, FALSE, {})),
    Inst("SPWRITE", "SP", FP, 0, TRUE, FALSE, {})>>

EpilogueInsts(insts) ==
  IF ~hasFP /\ ~isHandler THEN insts
  ELSE LET MBBI == LastNonDebugInstr(insts)
           withPost == IF isHandler
                       THEN InsertBefore(insts, MBBI, HandlerRestore)
                       ELSE insts
           MBBI2 == IF isHandler THEN MBBI + Len(HandlerRestore) ELSE MBBI
       IN IF FrameSize = 0 THEN withPost
          ELSE InsertBefore(withPost, SkipPops(withPost, MBBI2),
                            FrameRestoreInsts(FrameSize))

\* assert(MBBI->getDesc().isReturn() && ...), reached unless the early exit
\* was taken; MBBI is the last non-debug instruction of a block with one
EpilogueAssertFails_WithoutEarlyExit(insts) ==
  LastNonDebugInstr(insts) # 0 /\ ~isReturn(insts[LastNonDebugInstr(insts)])

EpilogueAssertFails(insts) ==
  /\ hasFP \/ isHandler
  /\ ~isReturn(insts[LastNonDebugInstr(insts)])

EpilogAssertion == "assert: Can only insert epilog into returning blocks"
AlignmentAssertion == "assert: Unsupported stack alignment"
\* MBBI->getDesc() where getLastNonDebugInstr() returned MBB.end()
UndefinedBehaviour == "undefined: dereference of MBB.end()"

\* emitEpilogue(MF, MBB) for block b; afterwards the caller goes on with the
\* block nextCur. A failed assertion ends the run and nothing is emitted.
\* In a block without a non-debug instruction MBBI is MBB.end(): what its
\* dereference yields is undefined, the assertion may fire or not.
EmitEpilogueAt(b, nextCur) ==
  LET insts == MF[b].insts
  IN IF (hasFP \/ isHandler) /\ LastNonDebugInstr(insts) = 0
     THEN /\ pc' \in {EpilogAssertion, UndefinedBehaviour}
          /\ UNCHANGED <<MF, cur>>
     ELSE IF EpilogueAssertFails(insts)
     THEN /\ pc' = EpilogAssertion
          /\ UNCHANGED <<MF, cur>>
     ELSE /\ MF' = [MF EXCEPT ![b].insts = EpilogueInsts(@)]
          /\ cur' = nextCur
          /\ pc' = IF cur' = 0 THEN "done" ELSE "epilogue"

\* called on each returning block
EmitEpilogue ==
  /\ pc = "epilogue"
  /\ cur # 0
  /\ EmitEpilogueAt(cur, NextRet(MF, cur + 1))
  /\ UNCHANGED <<StackAlignment, CallConv, MFI, FuncInfo, CSI, MF0, ret>>

-----------------------------------------------------------------------------
(* fixStackStores and AVRFrameLowering::eliminateCallFramePseudoInstr *)

StorePushes_OnePerStore(mi) ==
  <<Inst("PUSHRr", NoReg, mi.src, 0, mi.kill, FALSE, {})>>

\* the pushes replacing one pseudo store: high byte first for a word
StorePushes(mi) ==
  IF mi.op = "STDWSPQRr"
  THEN <<Inst("PUSHRr", NoReg, SubReg(mi.src, "sub_hi"), 0, mi.kill, FALSE, {}),
         Inst("PUSHRr", NoReg, SubReg(mi.src, "sub_lo"), 0, mi.kill, FALSE, {})>>
  ELSE <<Inst("PUSHRr", NoReg, mi.src, 0, mi.kill, FALSE, {})>>

\* the regular store through Y replacing one pseudo store
StoreThroughY(mi) ==
  [mi EXCEPT !.op = IF mi.op = "STDWSPQRr" THEN "STDWPtrQRr" ELSE "STDPtrQRr",
             !.dst = FP]

\* the same, but running to the end of the block
RECURSIVE fixStackStores_PastCalls(_, _, _)
fixStackStores_PastCalls(insts, i, insertPushes) ==
  IF i > Len(insts) THEN insts
  ELSE IF insts[i].op \notin SPStoreOps
       THEN fixStackStores_PastCalls(insts, i + 1, insertPushes)
  ELSE IF insertPushes
       THEN LET pushes == StorePushes(insts[i])
            IN fixStackStores_PastCalls(SubSeq(insts, 1, i - 1) \o pushes
                                          \o SubSeq(insts, i + 1, Len(insts)),
                                        i + Len(pushes), insertPushes)
  ELSE fixStackStores_PastCalls([insts EXCEPT ![i] = StoreThroughY(insts[i])],
                                i + 1, insertPushes)

\* from position i until a call or the end of the block
RECURSIVE fixStackStores(_, _, _)
fixStackStores(insts, i, insertPushes) ==
  IF i > Len(insts) \/ isCall(insts[i]) THEN insts
  ELSE IF insts[i].op \notin SPStoreOps
       THEN fixStackStores(insts, i + 1, insertPushes)
  ELSE IF insertPushes
       THEN LET pushes == StorePushes(insts[i])
            IN fixStackStores(SubSeq(insts, 1, i - 1) \o pushes
                                \o SubSeq(insts, i + 1, Len(insts)),
                              i + Len(pushes), insertPushes)
  ELSE fixStackStores([insts EXCEPT ![i] = StoreThroughY(insts[i])],
                      i + 1, insertPushes)

Z == "R31R30"

\* isUInt<6>(Amount) ? ADIWRdK Amount : SUBIWRdK -Amount  (int Amount)
TeardownInsts(Amount) ==
  <<Inst("SPREAD", Z, "SP", 0, FALSE, FALSE, {}),
    (IF isUInt6(Amount)
     THEN Inst("ADIWRdK", Z, Z, Amount, TRUE, FALSE, {})
     ELSE Inst("SUBIWRdK", Z, Z, 0 - Amount, TRUE, FALSE, {})),
    Inst("SPWRITE", "SP", Z, 0, TRUE, FALSE, {})>>

Erase(insts, i) == SubSeq(insts, 1, i - 1) \o SubSeq(insts, i + 1, Len(insts))

\* the block after the pseudo at position i was eliminated
EliminatedBlock(insts, i) ==
  IF hasReservedCallFrame
  THEN Erase(fixStackStores(insts, i, FALSE), i)
  ELSE LET Amount == insts[i].imm
       IN IF Amount = 0 THEN Erase(insts, i)
          ELSE IF insts[i].op = FrameSetupOp
               THEN Erase(fixStackStores(insts, i, TRUE), i)
               ELSE Erase(InsertBefore(insts, i, TeardownInsts(Amount)),
                          i + Len(TeardownInsts(Amount)))

\* if (Amount != 0) assert(TFI->getStackAlignment() == 1 && ...), reached only
\* without a reserved call frame
AlignmentAssertFails_AnyMarker(mi) == StackAlignment # 1

AlignmentAssertFails(mi) ==
  ~hasReservedCallFrame /\ mi.imm # 0 /\ StackAlignment # 1

\* the call frame pseudos still in the function, as <<block, position>>
Pseudos ==
  {bk \in UNION {{<<b, k>> : k \in 1 .. Len(MF[b].insts)} : b \in 1 .. Len(MF)} :
     MF[bk[1]].insts[bk[2]].op \in FrameSDOps}

\* the first pseudo in program order
FirstPseudo ==
  CHOOSE bk \in Pseudos :
    \A o \in Pseudos : bk[1] < o[1] \/ (bk[1] = o[1] /\ bk[2] <= o[2])

\* frame finalization hands over the pseudos in program order, either while
\* it collects the call information or after the prologue and epilogue
\* A failed assertion ends the run and nothing is emitted.
EliminateCallFramePseudoInstr ==
  /\ pc \in {"spill", "done"}
  /\ Pseudos # {}
  /\ IF AlignmentAssertFails(MF[FirstPseudo[1]].insts[FirstPseudo[2]])
     THEN /\ pc' = AlignmentAssertion
          /\ MF' = MF
     ELSE /\ MF' = [MF EXCEPT ![FirstPseudo[1]].insts =
                      EliminatedBlock(@, FirstPseudo[2])]
          /\ pc' = pc
  /\ UNCHANGED <<StackAlignment, CallConv, MFI, FuncInfo, CSI, MF0, cur, ret>>

-----------------------------------------------------------------------------
Next ==
  \/ RunFrameAnalyzer
  \/ RunDynAllocaSR
  \/ EliminateCallFramePseudoInstr
  \/ SpillCalleeSavedRegisters
  \/ RestoreCalleeSavedRegisters
  \/ EmitPrologue
  \/ EmitEpilogue

Spec == Init /\ [][Next]_vars

-----------------------------------------------------------------------------
(* The frame analyzer over every small object table and frame index user *)

\* most fixed objects (incoming argument slots)
MaxFixed == 1
\* most non-fixed objects
MaxLocalObjs == 2

\* nf fixed objects of one byte, then the non-fixed ones: 0 is variable sized
ObjectTables ==
  UNION {{[nf |-> nf, objs |-> [i \in 1 .. nf |-> 1] \o l] :
            l \in [1 .. n -> {0, 2}]} :
         nf \in 0 .. MaxFixed, n \in 0 .. MaxLocalObjs}

\* the indexed loads and stores, and an instruction that is none of them
FIUserOps == IndexedOps \cup {"FRMIDX"}

AnalyzerObjChoices ==
  UNION {{[nf |-> t.nf, objs |-> t.objs, fi |-> <<>>]}
           \cup {[nf |-> t.nf, objs |-> t.objs, fi |-> <<FIInst(op, idx)>>] :
                   op \in FIUserOps,
                   idx \in (0 - t.nf) .. (Len(t.objs) - t.nf - 1)} :
         t \in ObjectTables}

InitAnalyzer ==
  /\ StackAlignment = AVRStackAlignment
  /\ InitWith({"AVR_NORMAL"}, AnalyzerObjChoices, 1 .. 3, Layouts,
              {<< <<1>> >>}, {<<CSRegs[1]>>}, {0}, {UInt6Limit})

SpecAnalyzer == InitAnalyzer /\ [][Next]_vars

-----------------------------------------------------------------------------
(* Functions with several call sites, whose pseudos are eliminated one by    *)
(* one in program order                                                      *)

\* most call sites of the entry block
MaxCalls == 2

SmallArgs == {<<>>, <<1>>, <<2, 1>>, <<2, 0, 1>>}

\* the sequences of 1 .. n call sites
RECURSIVE CallSeqsUpTo(_)
CallSeqsUpTo(n) ==
  IF n = 0 THEN {}
  ELSE LET shorter == CallSeqsUpTo(n - 1)
       IN shorter \cup {<<a>> : a \in SmallArgs}
                  \cup {<<a>> \o c : a \in SmallArgs, c \in shorter}

InitCalls ==
  /\ StackAlignment = AVRStackAlignment
  /\ InitWith({"AVR_NORMAL"}, ObjChoices, {1}, {<< <<"ret">> >>},
              {c \in CallSeqsUpTo(MaxCalls) : Len(c) <= MaxCalls},
              {<<>>, <<CSRegs[1]>>}, {0, 1}, CallFrameSizes)

SpecCalls == InitCalls /\ [][Next]_vars

-----------------------------------------------------------------------------
(* The entry points under callers and targets that break their contract:     *)
(* emitEpilogue handed any block, and a stack alignment other than the one   *)
(* the constructor sets                                                      *)

Alignments == {AVRStackAlignment, 2 * AVRStackAlignment}

\* blocks ending in debug instructions, next to the control flow shapes
EmitterLayouts ==
  Layouts \cup
    { << <<"BRNE">>, <<"MOV", "DBG_VALUE">>, <<"ret", "DBG_VALUE">>,
         <<"DBG_VALUE">>, <<"ret">> >> }

InitEmitter ==
  /\ StackAlignment \in Alignments
  /\ InitWith(CallConvs, ObjChoices, {1}, EmitterLayouts,
              {<<>>, << <<>> >>, << <<1>> >>}, {<<>>, <<CSRegs[1]>>}, {0, 1},
              {0, UInt6Limit - 1, UInt6Limit})

\* emitEpilogue(MF, MBB) on the block b of the caller's choice
EmitEpilogueOn(b) ==
  /\ pc = "epilogue"
  /\ EmitEpilogueAt(b, 0)
  /\ UNCHANGED <<StackAlignment, CallConv, MFI, FuncInfo, CSI, MF0, ret>>

EmitEpilogueOnBlock == \E b \in 1 .. Len(MF) : EmitEpilogueOn(b)

NextEmitter ==
  \/ Next
  \/ EmitEpilogueOnBlock

SpecEmitter == InitEmitter /\ [][NextEmitter]_vars

-----------------------------------------------------------------------------
(* What the emitted instructions do to SP, Y, Z and the SP copy: 16-bit     *)
(* registers, an immediate counts modulo 2^16                                *)

M16(x) == x % (2 ^ PtrBits)

ExecStep(st, i) ==
  IF i.op = "PUSHRr" THEN [st EXCEPT !.sp = M16(@ - 1)]
  ELSE IF i.op = "PUSHWRr" THEN [st EXCEPT !.sp = M16(@ - 2)]
  ELSE IF i.op = "POPRd" THEN [st EXCEPT !.sp = M16(@ + 1)]
  ELSE IF i.op = "POPWRd" THEN [st EXCEPT !.sp = M16(@ + 2)]
  ELSE IF i.op = "SPREAD" THEN
         (IF i.dst = FP THEN [st EXCEPT !.y = st.sp] ELSE [st EXCEPT !.z = st.sp])
  ELSE IF i.op = "SPWRITE" THEN
         [st EXCEPT !.sp = IF i.src = FP THEN st.y ELSE st.z]
  ELSE IF i.op = "ADIWRdK" THEN
         (IF i.dst = FP THEN [st EXCEPT !.y = M16(@ + i.imm)]
          ELSE [st EXCEPT !.z = M16(@ + i.imm)])
  ELSE IF i.op \in {"SBIWRdK", "SUBIWRdK"} THEN
         (IF i.dst = FP THEN [st EXCEPT !.y = M16(@ - i.imm)]
          ELSE [st EXCEPT !.z = M16(@ - i.imm)])
  ELSE IF i.op = "COPY" THEN
         (IF i.dst = "SP" THEN [st EXCEPT !.sp = st.v] ELSE [st EXCEPT !.v = st.sp])
  ELSE st

RECURSIVE Exec(_, _)
Exec(insts, st) ==
  IF insts = <<>> THEN st ELSE Exec(Tail(insts), ExecStep(st, Head(insts)))

\* SP = sp0, the other registers hold something else
StartAt(sp0) == [sp |-> sp0, y |-> 0, z |-> 0, v |-> 0]

-----------------------------------------------------------------------------
(* Where the pipeline stands *)

AnalyzerDone == pc # "analyzer"
SpillDone == pc \in {"restore", "prologue", "epilogue", "done"}
PrologueDone == pc \in {"epilogue", "done"}
EpilogueDone == pc = "done"

\* the instructions of all blocks
AllInsts == UNION {{MF[b].insts[k] : k \in 1 .. Len(MF[b].insts)} : b \in 1 .. Len(MF)}

\* reading SP into Y, adjusting Y, writing Y back to SP
IsFPMaterialization(i) ==
  \/ i.op = "SPREAD" /\ i.dst = FP
  \/ i.op \in {"SBIWRdK", "SUBIWRdK", "ADIWRdK"} /\ i.dst = FP
  \/ i.op = "SPWRITE" /\ i.src = FP

-----------------------------------------------------------------------------
(* C1: hasFP is exactly "spills or allocas or stack arguments"; a function   *)
(* with none of the three has, under every calling convention, no read of SP *)
(* into Y, no subtract from Y, no write of Y to SP after emitPrologue, and   *)
(* no block has Y as live-in.                                                *)
C1_NoFramePointerWithoutNeed ==
  /\ hasFP <=> (FuncInfo.HasSpills \/ FuncInfo.HasAllocas \/ FuncInfo.HasStackArgs)
  /\ (~FuncInfo.HasSpills /\ ~FuncInfo.HasAllocas /\ ~FuncInfo.HasStackArgs) =>
       /\ \A i \in AllInsts : ~IsFPMaterialization(i)
       /\ \A b \in 1 .. Len(MF) : FP \notin MF[b].liveIns

\* an interrupt handler without frame pointer whose prologue has run
C1_Witness ==
  /\ PrologueDone
  /\ CallConv = "AVR_INTR"
  /\ ~FuncInfo.HasSpills /\ ~FuncInfo.HasAllocas /\ ~FuncInfo.HasStackArgs
  /\ Len(MF) > 1
  /\ MF[1].insts[1].op = "BSETs"

Ops(insts) == [k \in 1 .. Len(insts) |-> insts[k].op]

\* number of positions of insts that satisfy Test
CountOf(insts, Test(_)) == Cardinality({k \in 1 .. Len(insts) : Test(insts[k])})

C3_SpillStep ==
  LET n == Len(CSI)
      old == MF[1].insts
      new == MF'[1].insts
  IN /\ Len(new) = Len(old) + n
     /\ SubSeq(new, n + 1, Len(new)) = old
     /\ \A k \in 1 .. n : new[k].op = "PUSHRr" /\ new[k].src = CSI[n + 1 - k]
     /\ \A b \in 2 .. Len(MF) : MF'[b] = MF[b]
     /\ FuncInfo'.CalleeSavedFrameSize = n
     /\ ret'.spill = (IF n = 0 THEN "false" ELSE "true")
     /\ n = 0 => MF' = MF

C3_RestoreStep ==
  LET n == Len(CSI)
      old == MF[cur].insts
      new == MF'[cur].insts
      p == Len(old)
  IN /\ Len(new) = Len(old) + n
     /\ SubSeq(new, 1, p - 1) = SubSeq(old, 1, p - 1)
     /\ new[Len(new)] = old[p]
     /\ \A k \in 1 .. n : new[p - 1 + k].op = "POPRd" /\ new[p - 1 + k].dst = CSI[k]
     /\ \A b \in 1 .. Len(MF) : b # cur => MF'[b] = MF[b]
     /\ ret'.restore = (IF n = 0 THEN "false" ELSE "true")
     /\ n = 0 => MF' = MF

(* C3: spillCalleeSavedRegisters on [r1..rn], n > 0, puts exactly n PUSHRr   *)
(* of rn, .., r1 (in this order) in front of the entry block, sets           *)
(* CalleeSavedFrameSize to n and returns true; restoreCalleeSavedRegisters   *)
(* puts exactly n POPRd of r1, .., rn (in this order) before the return and  *)
(* returns true; on the empty list both leave the function unchanged and     *)
(* return false, and CalleeSavedFrameSize is 0, the number of bytes pushed.  *)
C3_SaveRestoreSymmetry ==
  [][/\ SpillCalleeSavedRegisters => C3_SpillStep
     /\ RestoreCalleeSavedRegisters => C3_RestoreStep]_vars

\* two registers were pushed and popped
C3_Witness ==
  /\ pc = "prologue"
  /\ Len(CSI) = 2
  /\ ret.spill = "true" /\ ret.restore = "true"
  /\ FuncInfo.CalleeSavedFrameSize = 2

IsPrologueAdjust(i) == i.fs /\ i.dst = FP /\ i.op \in {"SBIWRdK", "SUBIWRdK", "ADIWRdK"}
IsPrologueSPWrite(i) == i.fs /\ i.op = "SPWRITE" /\ i.src = FP
IsEpilogueAdjust(i) == ~i.fs /\ i.dst = FP /\ i.op \in {"SBIWRdK", "SUBIWRdK", "ADIWRdK"}
IsEpilogueSPWrite(i) == ~i.fs /\ i.op = "SPWRITE" /\ i.src = FP

\* the one adjustment of insts that Test selects, as <<op, imm>>; <<>> if none
Adjustments(insts, Test(_)) ==
  {<<insts[k].op, insts[k].imm>> : k \in {j \in 1 .. Len(insts) : Test(insts[j])}}

C5_Expected(short, general, generalImm) ==
  IF FrameSize = 0 THEN {}
  ELSE IF FrameSize >= 1 /\ FrameSize <= 63 THEN {<<short, FrameSize>>}
  ELSE {<<general, generalImm>>}

(* C5: with hasFP, the prologue has no Y adjustment and no SP write-back for *)
(* FrameSize 0, SBIWRdK Y, FrameSize + SPWRITE for 1..63 and SUBIWRdK Y,     *)
(* FrameSize + SPWRITE from 64 on; the epilogue of every returning block has *)
(* nothing for 0, ADIWRdK Y, FrameSize + SPWRITE for 1..63 and SUBIWRdK Y,   *)
(* -FrameSize + SPWRITE from 64 on.                                          *)
C5_FrameSizeSelection ==
  /\ (PrologueDone /\ hasFP) =>
       /\ Adjustments(MF[1].insts, IsPrologueAdjust)
            = C5_Expected("SBIWRdK", "SUBIWRdK", FrameSize)
       /\ CountOf(MF[1].insts, IsPrologueAdjust) = (IF FrameSize = 0 THEN 0 ELSE 1)
       /\ CountOf(MF[1].insts, IsPrologueSPWrite) = (IF FrameSize = 0 THEN 0 ELSE 1)
  /\ (EpilogueDone /\ hasFP) =>
       \A b \in 1 .. Len(MF) :
         /\ Adjustments(MF[b].insts, IsEpilogueAdjust)
              = (IF EndsInReturn(MF[b].insts)
                 THEN C5_Expected("ADIWRdK", "SUBIWRdK", 0 - FrameSize) ELSE {})
         /\ CountOf(MF[b].insts, IsEpilogueAdjust)
              = (IF EndsInReturn(MF[b].insts) /\ FrameSize # 0 THEN 1 ELSE 0)
         /\ CountOf(MF[b].insts, IsEpilogueSPWrite)
              = (IF EndsInReturn(MF[b].insts) /\ FrameSize # 0 THEN 1 ELSE 0)

\* a frame of 64 bytes: the general form on both sides
C5_Witness ==
  /\ EpilogueDone /\ hasFP /\ FrameSize = 64
  /\ \E i \in AllInsts : IsPrologueAdjust(i) /\ i.op = "SUBIWRdK" /\ i.imm = 64
  /\ \E i \in AllInsts : IsEpilogueAdjust(i) /\ i.op = "SUBIWRdK" /\ i.imm = 0 - 64

C7_Expected ==
  IF CallConv = "AVR_INTR"
  THEN << <<"BSETs", NoReg>>, <<"PUSHWRr", "R1R0">>, <<"INRdA", "R0">>,
          <<"PUSHRr", "R0">> >>
  ELSE IF CallConv = "AVR_SIGNAL"
  THEN << <<"PUSHWRr", "R1R0">>, <<"INRdA", "R0">>, <<"PUSHRr", "R0">> >>
  ELSE <<>>

\* opcode with the register read (pushes) or written (in)
C7_Shape(i) == <<i.op, IF i.op = "INRdA" THEN i.dst ELSE i.src>>

C7_PrologueStep ==
  LET old == MF[1].insts
      new == MF'[1].insts
      n == Len(C7_Expected)
      q == Cardinality({k \in 1 .. Len(old) :
                          \A j \in 1 .. k : old[j].op \in PushOps})
  IN /\ Len(new) >= n + q
     /\ [k \in 1 .. n |-> C7_Shape(new[k])] = C7_Expected
     /\ \A k \in 1 .. n : new[k].op = "INRdA" => new[k].imm = SREG
     /\ SubSeq(new, n + 1, n + q) = SubSeq(old, 1, q)
     /\ \A k \in 1 .. q : old[k].fs => old[k].src \in {CSI[j] : j \in 1 .. Len(CSI)}
     /\ IF hasFP
        THEN /\ Len(new) > n + q
             /\ new[n + q + 1].op = "SPREAD" /\ new[n + q + 1].dst = FP
             /\ \A k \in 1 .. Len(new) :
                  IsFPMaterialization(new[k]) /\ new[k].fs => k > n + q
        ELSE new = SubSeq(new, 1, n) \o old
     /\ \A k \in (n + 1) .. Len(new) :
          new[k].fs => new[k].op \notin {"BSETs", "INRdA", "PUSHWRr"}

(* C7: emitPrologue puts, at the very start of the entry block, BSETs 7,     *)
(* PUSHWRr R1R0, INRdA R0 <- SREG, PUSHRr R0 for an interrupt handler, the   *)
(* same without BSETs for a signal handler and nothing for other functions;  *)
(* the pushes that opened the block follow in unchanged order, and with      *)
(* hasFP the SPREAD into Y comes right after the last of them.               *)
C7_HandlerPrologueOrder == [][EmitPrologue => C7_PrologueStep]_vars

\* an interrupt handler with two callee-saved pushes and a frame pointer
C7_Witness ==
  /\ pc = "epilogue"
  /\ CallConv = "AVR_INTR" /\ hasFP /\ Len(CSI) = 2
  /\ Ops(SubSeq(MF[1].insts, 1, 7))
       = <<"BSETs", "PUSHWRr", "INRdA", "PUSHRr", "PUSHRr", "PUSHRr", "SPREAD">>

ArgRegs == {"R24", "R25"}
IsArgPush(i) == ~i.fs /\ i.op = "PUSHRr" /\ i.src \in ArgRegs
IsTeardownInst(i) == ~i.fs /\ (i.dst = Z \/ i.src = Z)

\* the amounts of the call sites the function started with
CallAmounts ==
  {MF0[1].insts[k].imm : k \in {j \in 1 .. Len(MF0[1].insts) :
                                  MF0[1].insts[j].op = FrameSetupOp}}

(* C6: once both pseudos of a call site with amount A # 0 are eliminated, no *)
(* pseudo and no SP-relative pseudo store is left in the block; without a    *)
(* reserved call frame the argument pushes lower SP by A and the teardown    *)
(* sequence raises it by A; with a reserved call frame SP is not touched; on *)
(* both paths SP after the call site is SP before it.                        *)
C6_CallSiteRoundTrip ==
  (AnalyzerDone /\ Pseudos = {}) =>
    \A A \in CallAmounts \ {0} : \A sp0 \in {2303, 32} :
      LET blk == MF[1].insts
          args == SelectSeq(blk, IsArgPush)
          td == SelectSeq(blk, IsTeardownInst)
          afterArgs == Exec(args, StartAt(sp0))
      IN /\ \A k \in 1 .. Len(blk) : blk[k].op \notin FrameSDOps \cup SPStoreOps
         /\ IF hasReservedCallFrame
            THEN args = <<>> /\ td = <<>>
            ELSE /\ afterArgs.sp = M16(sp0 - A)
                 /\ Len(args) = A
                 /\ Exec(td, StartAt(sp0)).sp = M16(sp0 + A)
         /\ Exec(td, afterArgs).sp = sp0

\* 64 bytes of arguments pushed and released with the general form
C6_Witness ==
  /\ EpilogueDone /\ Pseudos = {} /\ ~hasReservedCallFrame
  /\ CallAmounts = {64}
  /\ \E i \in AllInsts : i.op = "SUBIWRdK" /\ i.dst = Z /\ i.imm = 0 - 64
  /\ Len(SelectSeq(MF[1].insts, IsArgPush)) = 64

AccessesStack(i) ==
  \/ i.op \in PushOps \cup PopOps \cup SPStoreOps \cup CallOps
  \/ i.op \in IndexedOps

(* C4: with hasFP, after emitPrologue every block but the entry has Y as     *)
(* live-in, and (stated for FrameSize # 0, where the prologue writes SP) the *)
(* prologue's SPWRITE from Y precedes every instruction of the entry block   *)
(* that is not prologue code and accesses stack memory.                      *)
C4_FramePointerBeforeStackAccess ==
  (PrologueDone /\ hasFP) =>
    /\ \A b \in 2 .. Len(MF) : FP \in MF[b].liveIns
    /\ FrameSize # 0 =>
         \E w \in 1 .. Len(MF[1].insts) :
           /\ IsPrologueSPWrite(MF[1].insts[w])
           /\ \A k \in 1 .. Len(MF[1].insts) :
                (~MF[1].insts[k].fs /\ AccessesStack(MF[1].insts[k])) => w < k

C8_Restore == << <<"POPRd", "R0">>, <<"OUTARr", "R0">>, <<"POPWRd", "R1R0">> >>
C8_Shape(i) == <<i.op, IF i.op = "OUTARr" THEN i.src ELSE i.dst>>

C8_EpilogueStep ==
  LET old == MF[cur].insts
      new == MF'[cur].insts
      n == Len(new)
  IN /\ isHandler =>
          /\ n >= 4
          /\ [k \in 1 .. 3 |-> C8_Shape(new[n - 4 + k])] = C8_Restore
          /\ new[n - 2].imm = SREG
          /\ new[n] = old[Len(old)]
     /\ (isHandler /\ ~hasFP /\ FrameSize = 0) =>
          /\ n = Len(old) + 3
          /\ SubSeq(new, 1, n - 4) = SubSeq(old, 1, Len(old) - 1)
     /\ (~isHandler /\ ~hasFP) => new = old
     /\ \A b \in 1 .. Len(MF) : b # cur => MF'[b] = MF[b]

C8_PrologueStep ==
  (isHandler /\ ~hasFP /\ FrameSize = 0) =>
    /\ MF'[1].insts = HandlerSave(CallConv) \o MF[1].insts
    /\ \A b \in 1 .. Len(MF) : MF'[b].liveIns = MF[b].liveIns

(* C8: for a handler emitEpilogue leaves POPRd R0, OUTARr SREG <- R0,        *)
(* POPWRd R1R0 as the three instructions right before the return, with or    *)
(* without hasFP; a handler without frame pointer and locals gets nothing    *)
(* but the save sequence from emitPrologue and nothing but this restore      *)
(* sequence from emitEpilogue; a normal function without frame pointer is    *)
(* left unchanged by emitEpilogue.                                           *)
C8_HandlerEpilogue ==
  [][/\ EmitEpilogue => C8_EpilogueStep
     /\ EmitPrologue => C8_PrologueStep]_vars

C9_AnalyzerStep ==
  /\ ~FuncInfo.HasAllocas /\ ~FuncInfo.HasStackArgs
  /\ FuncInfo'.HasAllocas <=>
       \E i \in (MFI.NumFixedObjects + 1) .. Len(MFI.Objects) : MFI.Objects[i] # 0
  /\ FuncInfo'.HasStackArgs <=>
       /\ MFI.NumFixedObjects >= 1
       /\ \E i \in AllInsts :
            /\ i.op \in {"LDDRdPtrQ", "LDDWRdPtrQ", "STDPtrQRr", "STDWPtrQRr"}
            /\ \E f \in i.fi : f < 0
  /\ FuncInfo'.HasSpills = FuncInfo.HasSpills
  /\ FuncInfo'.CalleeSavedFrameSize = FuncInfo.CalleeSavedFrameSize
  /\ UNCHANGED <<StackAlignment, CallConv, MFI, CSI, MF>>

(* C9: starting from both flags false, the frame analyzer sets HasAllocas    *)
(* exactly when some non-fixed object has a non-zero size and HasStackArgs   *)
(* exactly when there is a fixed object and some LDDRdPtrQ, LDDWRdPtrQ,      *)
(* STDPtrQRr or STDWPtrQRr of any block has a frame index operand of a fixed *)
(* object; it changes nothing else.                                          *)
C9_FrameAnalyzer == [][RunFrameAnalyzer => C9_AnalyzerStep]_vars

\* a used argument slot next to a variable sized object only
C9_Witness ==
  /\ AnalyzerDone
  /\ FuncInfo.HasStackArgs /\ ~FuncInfo.HasAllocas
  /\ hasVarSizedObjects
  /\ MFI.NumFixedObjects = 1

IsSaveCopy(i) == i.op = "COPY" /\ i.src = "SP"
IsRestoreCopy(i) == i.op = "COPY" /\ i.dst = "SP"

\* the registers the function names before the pass
UsedRegs == {i.dst : i \in AllInsts} \cup {i.src : i \in AllInsts}

\* insts without the instruction at position p
C10_Without(insts, p) == SubSeq(insts, 1, p - 1) \o SubSeq(insts, p + 1, Len(insts))

C10_Common ==
  IF ~hasVarSizedObjects
  THEN MF' = MF /\ ret'.dynalloca = "false"
  ELSE /\ ret'.dynalloca = "true"
       /\ IsSaveCopy(MF'[1].insts[1])
       /\ MF'[1].insts[1].dst \notin UsedRegs \cup {NoReg}
       /\ \A b \in 1 .. Len(MF) :
            LET new == MF'[b].insts
                body == IF b = 1 THEN Tail(new) ELSE new
            IN /\ MF'[b].liveIns = MF[b].liveIns
               /\ CountOf(new, IsSaveCopy) = (IF b = 1 THEN 1 ELSE 0)
               /\ EndsInReturn(MF[b].insts) =>
                    /\ CountOf(new, IsRestoreCopy) = 1
                    /\ Len(body) = Len(MF[b].insts) + 1
                    /\ IsRestoreCopy(body[Len(body) - 1])
                    /\ body[Len(body) - 1].src = MF'[1].insts[1].dst
                    /\ body[Len(body) - 1].kill
                    /\ C10_Without(body, Len(body) - 1) = MF[b].insts

C10_Stated_Step ==
  /\ C10_Common
  /\ \A b \in 1 .. Len(MF) :
       ~EndsInReturn(MF[b].insts) => MF'[b] = MF[b]

(* C10, as stated: without variable sized objects the pass changes nothing   *)
(* and returns false; otherwise the entry block starts with one copy of SP   *)
(* into a new register, every block ending in a return gets one copy of that *)
(* register into SP right before the return, and every block that does not   *)
(* end in a return is unchanged.                                             *)
C10_Stated == [][RunDynAllocaSR => C10_Stated_Step]_vars

C10_Amended_Step ==
  /\ C10_Common
  /\ \A b \in 1 .. Len(MF) :
       ~EndsInReturn(MF[b].insts) =>
         IF b = 1 /\ hasVarSizedObjects
         THEN Tail(MF'[b].insts) = MF[b].insts
         ELSE MF'[b] = MF[b]

(* C10, amended: as stated, except that among the blocks that do not end in *)
(* a return only those other than the entry block are unchanged; an entry    *)
(* block that does not end in a return gets the copy of SP as its first      *)
(* instruction and is otherwise unchanged.                                   *)
C10_DynAllocaGuard == [][RunDynAllocaSR => C10_Amended_Step]_vars

\* variable sized object without frame pointer, entry block ends in a branch
C10_Witness ==
  /\ pc = "spill"
  /\ ret.dynalloca = "true"
  /\ ~hasFP
  /\ Len(MF) = 4
  /\ ~EndsInReturn(MF[1].insts)
  /\ IsSaveCopy(MF[1].insts[1])
  /\ IsRestoreCopy(MF[2].insts[2]) /\ IsRestoreCopy(MF[4].insts[1])

\* the first call at or after position k of insts, Len(insts) + 1 without one
C11_FirstCall(insts, k) ==
  LET cs == {j \in k .. Len(insts) : isCall(insts[j])}
  IN IF cs = {} THEN Len(insts) + 1
     ELSE CHOOSE j \in cs : \A o \in cs : j <= o

\* what stands in the place of mi after a push-based elimination
C11_Pushes(mi) ==
  IF mi.op = "STDSPQRr"
  THEN <<Inst("PUSHRr", NoReg, mi.src, 0, mi.kill, FALSE, {})>>
  ELSE IF mi.op = "STDWSPQRr"
  THEN <<Inst("PUSHRr", NoReg, SubReg(mi.src, "sub_hi"), 0, mi.kill, FALSE, {}),
         Inst("PUSHRr", NoReg, SubReg(mi.src, "sub_lo"), 0, mi.kill, FALSE, {})>>
  ELSE <<mi>>

RECURSIVE C11_Flat(_)
C11_Flat(insts) ==
  IF insts = <<>> THEN <<>> ELSE C11_Pushes(Head(insts)) \o C11_Flat(Tail(insts))

C11_Step ==
  LET b == FirstPseudo[1]
      i == FirstPseudo[2]
      old == MF[b].insts
      new == MF'[b].insts
      c == C11_FirstCall(old, i)
  IN /\ (~hasReservedCallFrame /\ old[i].op = FrameSetupOp /\ old[i].imm # 0) =>
          new = SubSeq(old, 1, i - 1) \o C11_Flat(SubSeq(old, i + 1, c - 1))
                  \o SubSeq(old, c, Len(old))
     /\ old[i].imm = 0 =>
          /\ Len(new) = Len(old) - 1
          /\ ~hasReservedCallFrame => new = Erase(old, i)
     /\ \A o \in 1 .. Len(MF) : o # b => MF'[o] = MF[o]

(* C11: without a reserved call frame, eliminating a setup marker with a     *)
(* non-zero amount replaces every SP-relative pseudo store between the       *)
(* marker and the first following call (or the block end) in place by        *)
(* PUSHRr of the source register (one byte) or by PUSHRr of the high byte    *)
(* and then PUSHRr of the low byte (two bytes), each with the kill state of  *)
(* the pseudo store; pseudo stores after that call and all other             *)
(* instructions stay as and where they are, and the marker is deleted. A     *)
(* marker with amount zero is deleted and no instruction is emitted.         *)
C11_PushBasedElimination == [][EliminateCallFramePseudoInstr => C11_Step]_vars

\* the first of two call sites is lowered to pushes around an instruction that
\* is not a store; the pseudo store of the second call site is still there
C11_Witness ==
  /\ ~hasReservedCallFrame
  /\ Len(MF[1].insts) >= 9
  /\ Ops(SubSeq(MF[1].insts, 1, 9))
       = <<"PUSHRr", "PUSHRr", "MOV", "PUSHRr", "CALL", FrameDestroyOp,
           FrameSetupOp, "STDSPQRr", "CALL">>
  /\ MF[1].insts[1].src = "R25" /\ MF[1].insts[2].src = "R24"
  /\ MF[1].insts[1].kill /\ MF[1].insts[2].kill
  /\ MF[1].insts[4].src = "R24"

C12_Assertions == {EpilogAssertion, AlignmentAssertion}

\* the last non-debug instruction of block b is there and is (not) a return
C12_Returning(b) ==
  LET insts == MF[b].insts
  IN LastNonDebugInstr(insts) # 0 /\ isReturn(insts[LastNonDebugInstr(insts)])

C12_NotReturning(b) ==
  LET insts == MF[b].insts
  IN LastNonDebugInstr(insts) # 0 /\ ~isReturn(insts[LastNonDebugInstr(insts)])

\* on a returning block with alignment one nothing fails
C12_WellFormed ==
  StackAlignment = 1 =>
    /\ EmitPrologue => pc' \notin C12_Assertions
    /\ EliminateCallFramePseudoInstr => pc' \notin C12_Assertions
    /\ \A b \in 1 .. Len(MF) :
         (EmitEpilogueOn(b) /\ C12_Returning(b)) =>
           pc' \notin C12_Assertions \cup {UndefinedBehaviour}

C12_Stated_Step ==
  /\ \A b \in 1 .. Len(MF) :
       (EmitEpilogueOn(b) /\ C12_NotReturning(b)) =>
         pc' = EpilogAssertion /\ MF' = MF
  /\ (StackAlignment # 1 /\ (EmitPrologue \/ EmitEpilogueOnBlock)) =>
       pc' \in C12_Assertions /\ MF' = MF
  /\ C12_WellFormed

(* C12, as stated: emitEpilogue on a block whose last non-debug instruction  *)
(* is not a return fails with the assertion and emits nothing, whatever      *)
(* hasFP and the calling convention are; emitPrologue and emitEpilogue fail  *)
(* with an assertion whenever the stack alignment is not one; with a         *)
(* returning block and alignment one no assertion fires.                     *)
C12_Stated == [][C12_Stated_Step]_vars

C12_Amended_Step ==
  /\ \A b \in 1 .. Len(MF) :
       (EmitEpilogueOn(b) /\ C12_NotReturning(b)) =>
         /\ MF' = MF
         /\ pc' = (IF hasFP \/ CallConv \in {"AVR_INTR", "AVR_SIGNAL"}
                   THEN EpilogAssertion ELSE "done")
  /\ EmitPrologue => pc' \notin C12_Assertions
  /\ \A b \in 1 .. Len(MF) :
       (EmitEpilogueOn(b) /\ C12_Returning(b)) => pc' \notin C12_Assertions
  /\ EliminateCallFramePseudoInstr =>
       LET mi == MF[FirstPseudo[1]].insts[FirstPseudo[2]]
       IN IF StackAlignment # 1 /\ ~hasReservedCallFrame /\ mi.imm # 0
          THEN pc' = AlignmentAssertion /\ MF' = MF
          ELSE pc' = pc
  /\ C12_WellFormed

(* C12, amended: emitEpilogue on a block whose last non-debug instruction is *)
(* not a return emits nothing; it fails with the assertion when hasFP holds  *)
(* or the function is an interrupt or signal handler, and returns without an *)
(* assertion otherwise. Neither emitPrologue nor emitEpilogue looks at the   *)
(* stack alignment: an alignment other than one fails the assertion of       *)
(* eliminateCallFramePseudoInstr, and only for a marker with a non-zero      *)
(* amount without a reserved call frame. With a returning block and          *)
(* alignment one no assertion fires.                                         *)
C12_FailureSemantics == [][C12_Amended_Step]_vars

\* a normal function with frame pointer under alignment two: the prologue was
\* emitted, then emitEpilogue was handed a block that ends in a branch
C12_Witness ==
  /\ pc = EpilogAssertion
  /\ CallConv = "AVR_NORMAL" /\ hasFP
  /\ StackAlignment = 2
  /\ \E i \in AllInsts : IsPrologueSPWrite(i)
  /\ \A i \in AllInsts : ~IsEpilogueSPWrite(i)

\* the instructions emitEpilogue and restoreCalleeSavedRegisters put at the end
\* of a block to restore registers
C13_IsRestoring(i) == i.op \in PopOps \/ (i.op = "OUTARr" /\ i.imm = SREG)

\* the function is one block without call sites and variable sized objects
C13_StraightLine ==
  /\ Len(MF) = 1
  /\ \A k \in 1 .. Len(MF0[1].insts) : MF0[1].insts[k].op \notin FrameSDOps
  /\ ~hasVarSizedObjects

(* C13: with hasFP and a non-zero FrameSize, under every calling convention, *)
(* once restoreCalleeSavedRegisters and emitEpilogue have run, the add to Y  *)
(* and the write of Y to SP that release the local frame come, in every      *)
(* returning block, before every restoring instruction (the callee-saved     *)
(* pops and, for handlers, POPRd R0, OUTARr SREG and POPWRd R1R0); running   *)
(* the code of a function of one block from entry to its return leaves SP at *)
(* its entry value.                                                          *)
C13_EpilogueStackDiscipline ==
  (EpilogueDone /\ hasFP /\ FrameSize # 0) =>
    /\ \A b \in 1 .. Len(MF) :
         EndsInReturn(MF[b].insts) =>
           LET insts == MF[b].insts
           IN \A k \in 1 .. Len(insts) :
                (IsEpilogueAdjust(insts[k]) \/ IsEpilogueSPWrite(insts[k])) =>
                  \A r \in 1 .. Len(insts) : C13_IsRestoring(insts[r]) => k < r
    /\ C13_StraightLine =>
         \A sp0 \in {2303, 32} : Exec(MF[1].insts, StartAt(sp0)).sp = sp0

=============================================================================
